---- MODULE Spec2Model ----
(***************************************************************************)
(* A model of the unified-post pipeline of src/test.py: the directory walk *)
(* that normalises post rows and collects follower totals, the            *)
(* construction of posts_df, the chronological delta computation with its  *)
(* anomaly guard, and the per-date follower attribution.                   *)
(*                                                                         *)
(* Dates are day ordinals (the code keys on "%m/%d/%Y" strings and orders  *)
(* them by the parsed datetime).  A cell of a CSV row is a record          *)
(* [k, v]: k = "none" (the column is missing, row.get gives None),         *)
(* k = "nan" (an empty cell), k = "num" (a number, v in tenths, so 15 is   *)
(* 1.5) or k = "str" (text that is not a number).  A stored metric is     *)
(* <<>> (the empty string "" of the code) or <<n>>; the engagement rate is *)
(* kept in hundredths of a percent.  row is the row of the posts loop      *)
(* (line 100) last read, <<>> before the first.  last_reading is not state *)
(* of the script: it records, for each platform and date, the total last   *)
(* read for that date from an insights file of that platform.              *)
(*                                                                         *)
(* File names, folder paths, links and captions are strings, and the       *)
(* substring tests of the code are computed on them.  Of a posts file the   *)
(* model keeps what the inference of platform and event reads: the non-null *)
(* links of its servicelink column and the captions of its text column.    *)
(***************************************************************************)
EXTENDS Integers, Sequences, FiniteSets, TLC

VARIABLES pc, root, filename, df_posts, platform, event_name, row,
          posts_data, daily_followers, last_reading, pdf_posts_data,
          posts_df, dates_sorted, di, prev_value, diff, daily_new_followers

\* The posts file being read (lines 35-97).
fileVars == <<root, filename, df_posts, platform, event_name>>

vars == <<pc, root, filename, df_posts, platform, event_name, row,
          posts_data, daily_followers, last_reading, pdf_posts_data,
          posts_df, dates_sorted, di, prev_value, diff, daily_new_followers>>

-----------------------------------------------------------------------------
(* Bounds of the explored inputs: the numbers of rows ingested, and the    *)
(* sets the rows' platforms, dates, cells and follower totals are drawn    *)
(* from.                                                                   *)

MaxPosts == 2
MaxReadings == 2
MaxDupPosts == 3
MaxSeriesPosts == 1
MaxSeriesReadings == 3
MaxRowPosts == 1
MaxPdfTables == 2

Platforms == {"IG", "FB"}

NoneCell == [k |-> "none", v |-> 0]
NaNCell == [k |-> "nan", v |-> 0]
StrCell == [k |-> "str", v |-> 0]
NumCell(tenths) == [k |-> "num", v |-> tenths]

\* A cell read as text (type, media): missing column, empty cell, or a
\* string.
TextNone == [k |-> "none", s |-> ""]
TextNaN == [k |-> "nan", s |-> ""]
Text(str) == [k |-> "str", s |-> str]

\* Follower totals and reading dates of the attribution runs.
AttrDates == {1, 2}
AttrTotals == {50, 900, 1000}
FlatTotals == {900}
ShareTotals == {50, 75, 900}
\* Follower totals and reading dates of the series runs (a gap between 2 and 4).
SeriesDates == {1, 2, 4}

\* The key of an insights row whose date cell strptime rejects: the cell's
\* own text (line 340).  Dates that parse are numbered from 1.
RawKey == 0
FileDates == {RawKey, 1, 2}
SeriesTotals == {50, 100, 900, 1000}

\* The 'date' cell of a posts row: k = "mdy" ("%m/%d/%Y"), "mdy_hms"
\* ("%m/%d/%Y %H:%M:%S"), "none" (no date column), "nan" (empty cell),
\* "iso" (an ISO 8601 string) or "junk" (any other text).
TsMDY(d) == [k |-> "mdy", date |-> d, hour |-> 0]
TsMDYHMS(d, h) == [k |-> "mdy_hms", date |-> d, hour |-> h]
TsOther(kind) == [k |-> kind, date |-> 0, hour |-> 0]

\* A 'date' cell that carries an instant in another form: k = "epoch_s"
\* (a number of seconds), "epoch_ms" (of milliseconds) or "iso"; date and
\* hour are those of the instant.
TsInstant(kind, d, h) == [k |-> kind, date |-> d, hour |-> h]

\* A posts-CSV row: the file's platform (from its name), the 'date' cell,
\* and the cells the normaliser reads.
Row(p, d, link, likes) ==
    [platform |-> p, ts |-> TsMDY(d), servicelink |-> link,
     type |-> TextNone, media |-> TextNone,
     impressions |-> NoneCell, reach |-> NoneCell, likes |-> likes,
     comments |-> NoneCell, shares |-> NoneCell, retweets |-> NoneCell,
     replies |-> NoneCell, saves |-> NoneCell, reactions |-> NoneCell,
     clicks |-> NoneCell, link_clicks |-> NoneCell]

LikesCells == {NoneCell, NumCell(10), NumCell(20), NumCell(-10)}

PlainRows == {Row(p, d, "", l) : p \in Platforms, d \in AttrDates,
                                 l \in {NumCell(10), NumCell(20)}}
AttrRows == {Row(p, d, "", l) : p \in Platforms, d \in AttrDates, l \in LikesCells}
DupRows == {Row("IG", d, u, l) : d \in {2}, u \in {"", "u1", "u2"},
                                 l \in {NumCell(10), NumCell(20)}}
SeriesRows == {Row("IG", 2, "u1", NumCell(10)), Row("FB", 4, "u2", NumCell(20))}

-----------------------------------------------------------------------------
(* Strings (Python's in, startswith and lower).                            *)

Char(s, i) == SubSeq(s, i, i)

Contains(s, k) ==
    \E i \in 1..(Len(s) - Len(k) + 1) : SubSeq(s, i, i + Len(k) - 1) = k

startswith(s, k) == Len(s) >= Len(k) /\ SubSeq(s, 1, Len(k)) = k

UpperLetters == "ABCDEFGHIJKLMNOPQRSTUVWXYZ"
LowerLetters == "abcdefghijklmnopqrstuvwxyz"

LowerChar(c) ==
    IF \E i \in 1..Len(UpperLetters) : Char(UpperLetters, i) = c
    THEN Char(LowerLetters,
              CHOOSE i \in 1..Len(UpperLetters) : Char(UpperLetters, i) = c)
    ELSE c

RECURSIVE lower(_)
lower(s) ==
    IF s = "" THEN "" ELSE LowerChar(Char(s, 1)) \o lower(SubSeq(s, 2, Len(s)))

-----------------------------------------------------------------------------
(* File discovery, platform and event (src/test.py 35-97).                 *)

\* A posts CSV found by the walk: its folder, its name, the non-null links
\* of its servicelink column and the captions of its text column (both <<>>
\* when the column is missing).
PostsFile(dir, name, links, captions) ==
    [root |-> dir, filename |-> name, servicelink |-> links, text |-> captions]

\* Lines 39-44.
IsPostsFile(name) ==
    LET fname_lower == lower(name)
    IN  /\ Len(fname_lower) >= 4
        /\ SubSeq(fname_lower, Len(fname_lower) - 3, Len(fname_lower)) = ".csv"
        /\ Contains(fname_lower, "posts")
        /\ ~Contains(fname_lower, "hashtags")
        /\ ~Contains(fname_lower, "insights")
        /\ ~Contains(fname_lower, "statistics")
        /\ ~Contains(fname_lower, "demographic")

\* Lines 55-61: the platform read off the file name.
PlatformOfName(fname_lower) ==
    IF Contains(fname_lower, "facebook") \/ Contains(fname_lower, "fb")
    THEN "FB"
    ELSE IF Contains(fname_lower, "instagram") \/ Contains(fname_lower, "ig")
    THEN "IG"
    ELSE IF \/ Contains(fname_lower, "twitter")
            \/ startswith(fname_lower, "x")
            \/ Contains(fname_lower, "tw")
    THEN "X"
    ELSE "Unknown"

\* Lines 64-76: the platform read off the first non-null service link.
PlatformOfLink(links) ==
    LET first_link == IF Len(links) > 0 THEN links[1] ELSE ""
    IN  IF Contains(first_link, "facebook.com") THEN "FB"
        ELSE IF Contains(first_link, "instagram.com") THEN "IG"
        ELSE IF \/ Contains(first_link, "twitter.com")
                \/ Contains(first_link, "t.co/")
                \/ Contains(first_link, "x.com")
        THEN "X"
        ELSE "Unknown"

\* Lines 54-76.
InferPlatform(f) ==
    IF PlatformOfName(lower(f.filename)) # "Unknown"
    THEN PlatformOfName(lower(f.filename))
    ELSE PlatformOfLink(f.servicelink)

\* Lines 11-17: the keyword table, in its order.
event_keywords ==
    <<<<"korea", "Rizin South Korea">>,
      <<"ws_korea", "Rizin South Korea">>,
      <<"landmark", "Rizin Landmark">>,
      <<"rizin 4", "Rizin 4">>,
      <<"rizin4", "Rizin 4">>>>

\* The table entries whose key occurs in a string, and the name of the
\* first of them.
KeysIn(str) ==
    {i \in 1..Len(event_keywords) : Contains(str, event_keywords[i][1])}

FirstName(idx) ==
    event_keywords[CHOOSE i \in idx : \A j \in idx : i <= j][2]

\* Lines 79-97: the first table entry found in the folder path or in the
\* file name; failing that, the first entry found in the first caption
\* that holds one; failing that, "Unknown Event".
InferEvent(f) ==
    LET path_lower == lower(f.root)
        fname_lower == lower(f.filename)
        named == KeysIn(path_lower) \cup KeysIn(fname_lower)
        texts == {t \in 1..Len(f.text) : KeysIn(lower(f.text[t])) # {}}
    IN  IF named # {}
        THEN FirstName(named)
        ELSE IF texts # {}
        THEN FirstName(KeysIn(lower(f.text[CHOOSE t \in texts :
                                               \A u \in texts : t <= u])))
        ELSE "Unknown Event"

\* Lines 39-97 on each posts CSV of a set of files: what the walk holds
\* once the file is read and its platform and event are inferred.
Opened(files) ==
    {[root |-> f.root, filename |-> f.filename,
      df_posts |-> <<[servicelink |-> f.servicelink, text |-> f.text]>>,
      platform |-> InferPlatform(f), event_name |-> InferEvent(f)] :
        f \in {g \in files : IsPostsFile(g.filename)}}

\* The posts files of the name and event inference.
NameFiles ==
    {PostsFile(dir, name, links, captions) :
        dir \in {"./data", "./korea_2025", "./landmark"},
        name \in {"fb_posts.csv", "Posts_IG.csv", "x_posts.csv", "posts.csv",
                  "highlights_posts.csv", "network_posts.csv",
                  "korea_posts.csv", "posts_insights.csv"},
        links \in {<<>>, <<"https://www.facebook.com/p/1">>,
                   <<"https://twitter.com/a/status/1">>},
        captions \in {<<>>, <<"fight night", "#rizin4 tonight">>,
                      <<"Landmark in Korea">>}}

NameOpened == Opened(NameFiles)

-----------------------------------------------------------------------------
(* Rounding.                                                               *)

Abs(n) == IF n < 0 THEN -n ELSE n

\* The quotient rounded up.
RoundUp(n, d) == IF d < 0 THEN -((n) \div (-d)) ELSE -((-n) \div d)

\* The quotient rounded down, where the code rounds to nearest.
RoundDown(n, d) == IF d < 0 THEN (-n) \div (-d) ELSE n \div d

\* Series.round(): round half to even, of the quotient n / d.  The code
\* rounds the float (e / total) * new_followers; on the engagements, totals
\* and deltas explored here that float rounds as the exact quotient does.
RoundHalfEven(n, d) ==
    LET nn == IF d < 0 THEN -n ELSE n
        dd == Abs(d)
        q == nn \div dd
        r == nn - q * dd
    IN  IF 2 * r < dd THEN q
        ELSE IF 2 * r > dd THEN q + 1
        ELSE IF q % 2 = 0 THEN q ELSE q + 1

-----------------------------------------------------------------------------
(* Row normalisation (src/test.py 233-317).                                *)

\* int(x) and int(float(x)) truncate toward zero.
\* Rows for the engagement sum: every platform, with each count column
\* missing, empty or filled.
EngageRows ==
    {[Row(p, 1, "", l) EXCEPT !.reactions = re, !.comments = c,
                              !.shares = sh, !.saves = sv] :
        p \in {"FB", "IG", "X", "Unknown"},
        l \in {NoneCell, NumCell(50)},
        re \in {NoneCell, NaNCell, NumCell(100)},
        c \in {NoneCell, NumCell(10), NumCell(30)},
        sh \in {NoneCell, NumCell(0), NumCell(20)},
        sv \in {NoneCell, NumCell(20)}}

\* X rows with the comments/replies and shares/retweets columns missing,
\* empty or filled.
SynonymRows ==
    {[Row("X", 1, "", l) EXCEPT !.comments = c, !.replies = rp,
                                !.shares = sh, !.retweets = rt] :
        l \in {NoneCell, NumCell(50)},
        c \in {NoneCell, NaNCell, NumCell(10)},
        rp \in {NoneCell, NaNCell, NumCell(30)},
        sh \in {NoneCell, NaNCell, NumCell(0), NumCell(20)},
        rt \in {NoneCell, NaNCell, NumCell(40)}}

\* IG rows for the stored metrics: each of impressions, reach and the two
\* click columns missing, empty, text, zero or a number.
MetricRows ==
    {[Row("IG", 1, "", l) EXCEPT !.impressions = im, !.reach = rc,
                                 !.clicks = ck, !.link_clicks = lc] :
        l \in {NoneCell, NumCell(50)},
        im \in {NoneCell, NaNCell, StrCell, NumCell(0), NumCell(30),
                NumCell(320), NumCell(2000), NumCell(-50)},
        rc \in {NoneCell, NumCell(0), NumCell(100)},
        ck \in {NoneCell, NumCell(0), NumCell(40)},
        lc \in {NoneCell, NumCell(20)}}

\* Posts with and without a link, all of one day, for the PDF merge.
LinkRows == {Row("IG", 2, u, NumCell(10)) : u \in {"", "u1", "u2"}}

\* A table extracted from a PDF, with one data row: its lower-cased column
\* names, and the post URL and impressions cells of the row.  A table
\* without a URL column has NaN there once the tables are concatenated.
FullCols == {"post_url", "impressions", "reach", "engagements"}
PdfTable(cols, u, v) ==
    [cols |-> cols,
     post_url |-> IF "post_url" \in cols THEN u ELSE "NaN",
     impressions |-> <<v>>]
PdfTables ==
    {PdfTable(c, u, 70) :
        c \in {FullCols, {"post_url", "impressions"},
               {"impressions", "reach", "engagements"}},
        u \in {"u1", "u3"}}

\* Rows for the format: each platform, with the type tag missing, empty or
\* filled, and links of the reel, tv and feed kinds.
FormatRows ==
    {[Row(p, 1, u, NumCell(10)) EXCEPT !.type = t, !.media = m] :
        p \in {"IG", "FB", "X", "Unknown"},
        u \in {"", "https://www.instagram.com/reel/abc/",
               "https://www.instagram.com/tv/abc/",
               "https://www.instagram.com/p/abc/"},
        t \in {TextNone, TextNaN, Text("video"), Text("Video"),
               Text("carousel_album"), Text("image"), Text("story")},
        m \in {TextNone, Text("a.jpg|b.jpg")}}

\* Rows that carry one instant (day 2 at 15 h) in each form.
InstantRows ==
    {[Row("IG", 2, "", l) EXCEPT !.ts = t] :
        l \in {NumCell(10), NumCell(20)},
        t \in {TsMDYHMS(2, 15), TsInstant("epoch_s", 2, 15),
               TsInstant("epoch_ms", 2, 15), TsInstant("iso", 2, 15)}}

\* Rows with each kind of 'date' cell.
TsRows ==
    {[Row("IG", 1, "", l) EXCEPT !.ts = t] :
        l \in {NumCell(10), NumCell(20)},
        t \in {TsMDY(1), TsMDY(2), TsMDYHMS(2, 15), TsOther("none"),
               TsOther("nan"), TsOther("iso"), TsOther("junk")}}

Trunc10(t) == IF t >= 0 THEN t \div 10 ELSE -((-t) \div 10)

to_int(x) ==
    IF x.k \in {"none", "nan"} THEN 0
    ELSE IF x.k = "num" THEN Trunc10(x.v)
    ELSE 0

\* Python truth value of a cell: None, 0 and 0.0 are false, NaN and text are true.
Truthy(x) == x.k \in {"nan", "str"} \/ (x.k = "num" /\ x.v # 0)

PyOr(a, b) == IF Truthy(a) THEN a ELSE b

\* comments falls back to replies only when the comments column is missing.
CommentsCell(r) ==
    IF r.comments.k = "none" /\ r.replies.k # "none"
    THEN r.replies ELSE r.comments

SharesCell(r) == PyOr(r.shares, r.retweets)

engagements_val(r) ==
    LET likes_val == to_int(r.likes)
        comments_val == to_int(CommentsCell(r))
        shares_val == to_int(SharesCell(r))
        saves_val == to_int(r.saves)
        reactions_val == to_int(r.reactions)
    IN  IF r.platform = "FB"
        THEN (IF r.reactions.k # "none" THEN reactions_val ELSE likes_val)
             + comments_val + shares_val
        ELSE IF r.platform = "IG"
        THEN likes_val + comments_val + shares_val + saves_val
        ELSE IF r.platform = "X"
        THEN likes_val + comments_val + shares_val
        ELSE likes_val + comments_val + shares_val + saves_val

\* str(row.get(name, '')): '' for a missing column, 'nan' for an empty
\* cell.
PyStr(c) == IF c.k = "none" THEN "" ELSE IF c.k = "nan" THEN "nan" ELSE c.s

\* str.capitalize: the first character in upper case, the rest in lower.
UpperChar(c) ==
    IF \E i \in 1..Len(LowerLetters) : Char(LowerLetters, i) = c
    THEN Char(UpperLetters,
              CHOOSE i \in 1..Len(LowerLetters) : Char(LowerLetters, i) = c)
    ELSE c

capitalize(str) ==
    IF str = "" THEN ""
    ELSE UpperChar(Char(str, 1)) \o lower(SubSeq(str, 2, Len(str)))

\* isinstance(media_field, str) and media_field.
MediaText(c) == c.k = "str" /\ c.s # ""

\* Lines 138-212: the format of a post, from its type tag when the row has
\* one and from the platform's default otherwise.
post_format(r) ==
    LET post_type == lower(PyStr(r.type))
        post_url == r.servicelink
        photo == Contains(post_type, "image") \/ Contains(post_type, "photo")
    IN  IF post_type # ""
        THEN IF r.platform = "IG"
             THEN IF Contains(post_type, "video")
                  THEN IF Contains(post_url, "/reel/") THEN "Reel"
                       ELSE IF Contains(post_url, "/tv/") THEN "Video"
                       ELSE "Reel"
                  ELSE IF \/ Contains(post_type, "carousel")
                          \/ Contains(post_type, "album")
                  THEN "Carousel"
                  ELSE IF photo THEN "Static"
                  ELSE capitalize(post_type)
             ELSE IF r.platform = "FB"
             THEN IF Contains(post_type, "video") THEN "Video"
                  ELSE IF photo
                  THEN IF MediaText(r.media)
                          /\ (Contains(r.media.s, "|") \/ Contains(r.media.s, ";"))
                       THEN "Carousel"
                       ELSE "Static"
                  ELSE IF Contains(post_type, "link") THEN "Link"
                  ELSE capitalize(post_type)
             ELSE IF r.platform = "X"
             THEN IF Contains(post_type, "video") THEN "Video"
                  ELSE IF photo
                  THEN IF MediaText(r.media)
                          /\ (Contains(r.media.s, ",") \/ Contains(r.media.s, "|"))
                       THEN "Carousel"
                       ELSE "Static"
                  ELSE IF \/ Contains(post_type, "text")
                          \/ Contains(post_type, "tweet")
                  THEN "Text"
                  ELSE capitalize(post_type)
             ELSE capitalize(post_type)
        ELSE IF r.platform = "IG"
             THEN IF Contains(post_url, "/reel/") THEN "Reel" ELSE "Static"
             ELSE IF r.platform = "FB" THEN "Static"
             ELSE IF r.platform = "X"
             THEN IF MediaText(r.media)
                  THEN IF \/ Contains(r.media.s, ".mp4")
                          \/ Contains(r.media.s, ".mov")
                       THEN "Video"
                       ELSE IF \/ Contains(r.media.s, ",")
                               \/ Contains(r.media.s, "|")
                       THEN "Carousel"
                       ELSE "Static"
                  ELSE "Text"
             ELSE ""

\* Lines 288-291: round(engagements / impressions * 100, 2), in hundredths;
\* "" when impressions is not above 0.  On the values explored here the
\* float quotient rounds as the exact one does.
engagement_rate_val(r) ==
    LET impressions_val == to_int(r.impressions)
    IN  IF impressions_val # 0 /\ impressions_val > 0
        THEN <<RoundHalfEven(engagements_val(r) * 10000, impressions_val)>>
        ELSE <<>>

\* Every cell taken as a date.
ParseAny(ts) == TRUE

\* Lines 106-121: the two strptime formats; any other cell raises and the
\* row is skipped, and so is an empty date string (line 104).
ParseOk(ts) == ts.k \in {"mdy", "mdy_hms"}

\* The coerced value stored whatever it is.
KeepZero(n) == <<n>>

\* dt.strftime("%A") (line 117): the day of the week of a day ordinal.
day_of_week(d) == d % 7

\* A metric is stored as "" when its coerced value is 0.
BlankIfZero(n) == IF n # 0 THEN <<n>> ELSE <<>>

\* The record appended to posts_data (lines 300-317).  The rows explored
\* here carry no caption, so the hashtag string is empty.
PostRecord(r) ==
    [platform |-> r.platform,
     date |-> r.ts.date,
     hour |-> r.ts.hour,
     weekday |-> day_of_week(r.ts.date),
     url |-> r.servicelink,
     format |-> post_format(r),
     hashtags |-> "",
     impressions |-> BlankIfZero(to_int(r.impressions)),
     reach |-> BlankIfZero(to_int(r.reach)),
     engagements |-> <<engagements_val(r)>>,
     rate |-> engagement_rate_val(r),
     clicks |-> BlankIfZero(to_int(PyOr(r.clicks, r.link_clicks))),
     follows |-> 0]

-----------------------------------------------------------------------------
(* The Python dict daily_followers: <<date, total>> pairs in insertion     *)
(* order; assigning to a key that exists keeps its position.               *)

DictKeys(dct) == [i \in 1..Len(dct) |-> dct[i][1]]
KeySet(dct) == {dct[i][1] : i \in 1..Len(dct)}
DictGet(dct, key) == (CHOOSE i \in 1..Len(dct) : dct[i][1] = key)
DictValue(dct, key) == dct[DictGet(dct, key)][2]

DictSet(dct, key, val) ==
    IF key \in KeySet(dct)
    THEN [i \in 1..Len(dct) |-> IF dct[i][1] = key THEN <<key, val>> ELSE dct[i]]
    ELSE Append(dct, <<key, val>>)

-----------------------------------------------------------------------------
(* sorted(daily_followers.keys(), key=strptime): ascending by date.        *)

RECURSIVE InsertByDate(_, _)
InsertByDate(s, x) ==
    IF s = <<>> THEN <<x>>
    ELSE IF x < Head(s) THEN <<x>> \o s
    ELSE <<Head(s)>> \o InsertByDate(Tail(s), x)

RECURSIVE SortFrom(_, _)
SortFrom(acc, s) ==
    IF s = <<>> THEN acc ELSE SortFrom(InsertByDate(acc, Head(s)), Tail(s))

Unsorted(keys) == keys

sorted(keys) == SortFrom(<<>>, keys)

-----------------------------------------------------------------------------
(* The anomaly guard (line 445): 0.9 * prev_value is 9 * prev_value / 10;  *)
(* the float product equals the exact one on integers, so the comparison   *)
(* is made on integers here.                                               *)

AnomalyInclusive(d, prev) == d < 0 /\ 10 * Abs(d) >= 9 * prev

Anomaly(d, prev) == d < 0 /\ 10 * Abs(d) > 9 * prev

-----------------------------------------------------------------------------
(* Attribution (lines 452-472).                                            *)

GroupIdx(df, date) == {i \in 1..Len(df) : df[i].date = date}

RECURSIVE SumEngagements(_, _)
SumEngagements(df, idx) ==
    IF idx = {} THEN 0
    ELSE LET i == CHOOSE j \in idx : TRUE
         IN  df[i].engagements[1] + SumEngagements(df, idx \ {i})

\* daily_new_followers.get(post_date, 0)
new_followers(dnf, date) == IF date \in DOMAIN dnf THEN dnf[date] ELSE 0

\* share * new_followers, rounded, as <<n>>; a zero total makes the share
\* NaN or infinite and astype(int) raises: <<>>.
\* The allocation by the share of the other posts of the day.
allocatedOthers(e, total, nf) ==
    IF total = 0 THEN <<>> ELSE <<RoundHalfEven((total - e) * nf, total)>>

allocated(e, total, nf) ==
    IF total = 0 THEN <<>> ELSE <<RoundHalfEven(e * nf, total)>>

\* Line 457 testing new_followers != 0 where the code tests > 0.
FollowsOfNonZero(df, dnf, i) ==
    LET nf == new_followers(dnf, df[i].date)
        total == SumEngagements(df, GroupIdx(df, df[i].date))
    IN  IF nf # 0
        THEN IF total > 0 THEN allocated(df[i].engagements[1], total, nf)
             ELSE <<0>>
        ELSE <<0>>

\* Line 459 missing: the share is computed whatever the total is.
FollowsOfNoTotalGuard(df, dnf, i) ==
    LET nf == new_followers(dnf, df[i].date)
        total == SumEngagements(df, GroupIdx(df, df[i].date))
    IN  IF nf > 0 THEN allocated(df[i].engagements[1], total, nf) ELSE <<0>>

\* The value assigned to "Follows Gained (estimated)" of row i by the
\* iteration of its date group.
FollowsOf(df, dnf, i) ==
    LET nf == new_followers(dnf, df[i].date)
        total == SumEngagements(df, GroupIdx(df, df[i].date))
    IN  IF nf > 0
        THEN IF total > 0 THEN allocated(df[i].engagements[1], total, nf)
             ELSE <<0>>
        ELSE <<0>>

-----------------------------------------------------------------------------
(* The script, section by section.                                         *)

-----------------------------------------------------------------------------
(* The PDF merge (src/test.py 388-420).                                    *)

\* The columns of the concatenated PDF tables.
pdf_columns(tables) == UNION {tables[i].cols : i \in 1..Len(tables)}

\* Series.fillna: a stored metric is "" or a number, and neither is NA, so
\* the PDF value v is never taken.
isna(m) == FALSE
fillna(m, v) == IF isna(m) THEN v ELSE m

\* One output row of the left join: the record with the PDF row's columns
\* beside it, then the three fillna calls.
Filled(rec, t) ==
    [rec EXCEPT !.impressions = fillna(rec.impressions, t.impressions),
                !.reach = fillna(rec.reach, <<>>),
                !.engagements = fillna(rec.engagements, <<>>)]

\* DataFrame.merge(how='left'): the records in order, one output row for
\* each PDF row with an equal post URL, and one for a record with none.
Matches(rec, tables) == SelectSeq(tables, LAMBDA t : t.post_url = rec.url)

JoinedRows(rec, tables) ==
    IF Matches(rec, tables) = <<>>
    THEN <<rec>>
    ELSE [j \in 1..Len(Matches(rec, tables)) |->
             Filled(rec, Matches(rec, tables)[j])]

RECURSIVE LeftJoin(_, _)
LeftJoin(records, tables) ==
    IF records = <<>>
    THEN <<>>
    ELSE JoinedRows(Head(records), tables) \o LeftJoin(Tail(records), tables)

EmptyMap == [d \in {} |-> 0]

Init ==
    /\ pc = "walk"
    /\ root = ""
    /\ filename = ""
    /\ df_posts = <<>>
    /\ platform = ""
    /\ event_name = ""
    /\ row = <<>>
    /\ posts_data = <<>>
    /\ daily_followers = <<>>
    /\ last_reading = EmptyMap
    /\ pdf_posts_data = <<>>
    /\ posts_df = <<>>
    /\ dates_sorted = <<>>
    /\ di = 0
    /\ prev_value = <<>>
    /\ diff = <<>>
    /\ daily_new_followers = EmptyMap

\* Lines 35-97: the walk reaches a posts CSV; its platform and event are
\* inferred before its rows are read.
OpenPostsFile(opened) ==
    /\ pc = "walk"
    /\ \E f \in opened :
          /\ root' = f.root
          /\ filename' = f.filename
          /\ df_posts' = f.df_posts
          /\ platform' = f.platform
          /\ event_name' = f.event_name
    /\ UNCHANGED <<pc, row, posts_data, daily_followers, last_reading,
                   pdf_posts_data, posts_df, dates_sorted, di, prev_value,
                   diff, daily_new_followers>>

\* Lines 100-317: one row of a posts CSV is read; it is skipped when its
\* date does not parse, and normalised and appended otherwise.
IngestPostRow(rows, maxPosts) ==
    /\ pc = "walk"
    /\ Len(posts_data) < maxPosts
    /\ \E r \in rows :
          /\ row' = <<r>>
          /\ IF ParseOk(r.ts)
             THEN posts_data' = Append(posts_data, PostRecord(r))
             ELSE UNCHANGED posts_data
    /\ UNCHANGED <<pc, daily_followers, last_reading, pdf_posts_data,
                   posts_df, dates_sorted, di, prev_value, diff,
                   daily_new_followers>>
    /\ UNCHANGED fileVars

\* A row of the posts file that is open: its platform is the file's.
IngestFileRow(rows, maxPosts) ==
    /\ filename # ""
    /\ IngestPostRow({[r EXCEPT !.platform = platform] : r \in rows}, maxPosts)

\* Lines 333-350: one row of an insights CSV sets the total of its date.
IngestInsightRow(plats, dates, totals, maxReadings) ==
    /\ pc = "walk"
    /\ \E p \in plats, date_key \in dates, total_fans \in totals :
          /\ date_key \in KeySet(daily_followers)
                \/ Len(daily_followers) < maxReadings
          /\ daily_followers' = DictSet(daily_followers, date_key, total_fans)
          /\ last_reading' = (<<p, date_key>> :> total_fans) @@ last_reading
    /\ UNCHANGED <<pc, row, posts_data, pdf_posts_data, posts_df, dates_sorted,
                   di, prev_value, diff, daily_new_followers>>
    /\ UNCHANGED fileVars

\* The walk over the directory ends (line 350).
EndWalk ==
    /\ pc = "walk"
    /\ pc' = "pdf"
    /\ UNCHANGED <<row, last_reading, pdf_posts_data,
                   posts_data, daily_followers, posts_df, dates_sorted, di,
                   prev_value, diff, daily_new_followers>>
    /\ UNCHANGED fileVars

\* Lines 366-377: a table with an impressions heading is extracted from a
\* PDF and kept.
IngestPdfTable(tables, maxTables) ==
    /\ pc = "pdf"
    /\ Len(pdf_posts_data) < maxTables
    /\ \E t \in tables : pdf_posts_data' = Append(pdf_posts_data, t)
    /\ UNCHANGED <<pc, row, posts_data, daily_followers, last_reading,
                   posts_df, dates_sorted, di, prev_value, diff,
                   daily_new_followers>>
    /\ UNCHANGED fileVars

\* Lines 388-420: PDF tables were extracted.  The join is made when the
\* URL and impressions columns exist; selecting the reach and engagements
\* columns raises KeyError when one of them does not.
MergePdf ==
    /\ pc = "pdf"
    /\ pdf_posts_data # <<>>
    /\ IF {"post_url", "impressions"} \subseteq pdf_columns(pdf_posts_data)
       THEN IF {"reach", "engagements"} \subseteq pdf_columns(pdf_posts_data)
            THEN /\ posts_df' = LeftJoin(posts_data, pdf_posts_data)
                 /\ pc' = "delta"
            ELSE /\ pc' = "crash_merge"
                 /\ UNCHANGED posts_df
       ELSE /\ posts_df' = posts_data
            /\ pc' = "delta"
    /\ UNCHANGED <<row, last_reading, pdf_posts_data,
                   posts_data, daily_followers, dates_sorted, di,
                   prev_value, diff, daily_new_followers>>
    /\ UNCHANGED fileVars

\* Lines 421-428: no PDF table was extracted, posts_df is posts_data.
BuildPostsDf ==
    /\ pc = "pdf"
    /\ pdf_posts_data = <<>>
    /\ posts_df' = posts_data
    /\ pc' = "delta"
    /\ UNCHANGED <<row, last_reading, pdf_posts_data,
                   posts_data, daily_followers, dates_sorted, di,
                   prev_value, diff, daily_new_followers>>
    /\ UNCHANGED fileVars

\* Lines 432-436.  The sort key is strptime, which raises ValueError on a
\* key that is not a date.
DeltaStart ==
    /\ pc = "delta"
    /\ daily_new_followers' = EmptyMap
    /\ IF daily_followers # <<>>
       THEN IF RawKey \in KeySet(daily_followers)
            THEN /\ pc' = "crash_sort"
                 /\ UNCHANGED <<dates_sorted, prev_value, di>>
            ELSE /\ dates_sorted' = sorted(DictKeys(daily_followers))
                 /\ prev_value' = <<>>
                 /\ di' = 1
                 /\ pc' = "delta_loop"
       ELSE /\ pc' = "attrib"
            /\ UNCHANGED <<dates_sorted, prev_value, di>>
    /\ UNCHANGED <<row, last_reading, pdf_posts_data,
                   posts_data, daily_followers, posts_df, diff>>
    /\ UNCHANGED fileVars

\* Lines 437-443: the next date of the loop, up to the computation of diff.
DeltaDiff ==
    /\ pc = "delta_loop"
    /\ di <= Len(dates_sorted)
    /\ LET curr_value == DictValue(daily_followers, dates_sorted[di])
       IN  IF prev_value = <<>>
           THEN /\ prev_value' = <<curr_value>>
                /\ di' = di + 1
                /\ UNCHANGED <<pc, diff>>
           ELSE /\ diff' = <<curr_value - prev_value[1]>>
                /\ pc' = "delta_guard"
                /\ UNCHANGED <<prev_value, di>>
    /\ UNCHANGED <<row, last_reading, pdf_posts_data,
                   posts_data, daily_followers, posts_df, dates_sorted,
                   daily_new_followers>>
    /\ UNCHANGED fileVars

\* The store that keeps the old baseline when the guard clamps.
DeltaStoreKeepBaseline ==
    /\ pc = "delta_guard"
    /\ LET date == dates_sorted[di]
           clamp == Anomaly(diff[1], prev_value[1])
                       /\ date \in KeySet(daily_followers)
           d == IF clamp THEN 0 ELSE diff[1]
       IN  /\ diff' = <<d>>
           /\ daily_new_followers' = (date :> d) @@ daily_new_followers
           /\ prev_value' = IF clamp THEN prev_value
                            ELSE <<DictValue(daily_followers, date)>>
    /\ di' = di + 1
    /\ pc' = "delta_loop"
    /\ UNCHANGED <<row, last_reading, pdf_posts_data,
                   posts_data, daily_followers, posts_df, dates_sorted>>
    /\ UNCHANGED fileVars

\* Lines 445-449: the anomaly guard, the store and the new baseline.
DeltaStore ==
    /\ pc = "delta_guard"
    /\ LET date == dates_sorted[di]
           d == IF Anomaly(diff[1], prev_value[1]) /\ date \in KeySet(daily_followers)
                THEN 0 ELSE diff[1]
       IN  /\ diff' = <<d>>
           /\ daily_new_followers' = (date :> d) @@ daily_new_followers
           /\ prev_value' = <<DictValue(daily_followers, date)>>
    /\ di' = di + 1
    /\ pc' = "delta_loop"
    /\ UNCHANGED <<row, last_reading, pdf_posts_data,
                   posts_data, daily_followers, posts_df, dates_sorted>>
    /\ UNCHANGED fileVars

\* The for loop of line 437 is exhausted.
DeltaEnd ==
    /\ pc = "delta_loop"
    /\ di > Len(dates_sorted)
    /\ pc' = "attrib"
    /\ UNCHANGED <<row, last_reading, pdf_posts_data,
                   posts_data, daily_followers, posts_df, dates_sorted, di,
                   prev_value, diff, daily_new_followers>>
    /\ UNCHANGED fileVars

\* The attribution that keeps only the records that gained followers.
AttributeGainers ==
    /\ pc = "attrib"
    /\ posts_df' =
          SelectSeq([i \in 1..Len(posts_df) |->
                       [posts_df[i] EXCEPT
                          !.follows =
                             FollowsOf(posts_df, daily_new_followers, i)[1]]],
                    LAMBDA rec : rec.follows > 0)
    /\ pc' = "save"
    /\ UNCHANGED <<row, last_reading, pdf_posts_data,
                   posts_data, daily_followers, dates_sorted, di,
                   prev_value, diff, daily_new_followers>>
    /\ UNCHANGED fileVars

\* Lines 452-472: every date group of posts_df is assigned its allocation.
Attribute ==
    /\ pc = "attrib"
    /\ IF DOMAIN daily_new_followers = {}
       THEN pc' = "save" /\ UNCHANGED posts_df
       ELSE IF \E i \in 1..Len(posts_df) :
                  FollowsOf(posts_df, daily_new_followers, i) = <<>>
       THEN pc' = "crash_alloc" /\ UNCHANGED posts_df
       ELSE /\ posts_df' =
                 [i \in 1..Len(posts_df) |->
                    [posts_df[i] EXCEPT
                       !.follows = FollowsOf(posts_df, daily_new_followers, i)[1]]]
            /\ pc' = "save"
    /\ UNCHANGED <<row, last_reading, pdf_posts_data,
                   posts_data, daily_followers, dates_sorted, di,
                   prev_value, diff, daily_new_followers>>
    /\ UNCHANGED fileVars

\* Lines 474-477: the unified table is written.
Save ==
    /\ pc = "save"
    /\ pc' = "done"
    /\ UNCHANGED <<row, last_reading, pdf_posts_data,
                   posts_data, daily_followers, posts_df, dates_sorted, di,
                   prev_value, diff, daily_new_followers>>
    /\ UNCHANGED fileVars

Pipeline ==
    \/ EndWalk
    \/ BuildPostsDf
    \/ DeltaStart
    \/ DeltaDiff
    \/ DeltaStore
    \/ DeltaEnd
    \/ Attribute
    \/ Save

\* Runs rich in posts of two platforms, with few follower readings.
Next ==
    \/ IngestPostRow(AttrRows, MaxPosts)
    \/ IngestInsightRow({"IG"}, AttrDates, AttrTotals, MaxReadings)
    \/ Pipeline

Spec == Init /\ [][Next]_vars

\* Runs of two platforms whose posts all have positive engagements.
NextPlatforms ==
    \/ IngestPostRow(PlainRows, MaxPosts)
    \/ IngestInsightRow({"IG"}, AttrDates, AttrTotals, MaxReadings)
    \/ Pipeline

SpecPlatforms == Init /\ [][NextPlatforms]_vars

\* Runs of one platform whose posts carry URLs, duplicated or empty.
NextDup ==
    \/ IngestPostRow(DupRows, MaxDupPosts)
    \/ IngestInsightRow({"IG"}, AttrDates, AttrTotals, MaxReadings)
    \/ Pipeline

SpecDup == Init /\ [][NextDup]_vars

\* Runs rich in follower readings, ingested in any order.
NextEngage ==
    \/ IngestPostRow(EngageRows, MaxRowPosts)
    \/ IngestInsightRow({"IG"}, AttrDates, FlatTotals, MaxReadings)
    \/ Pipeline

SpecEngage == Init /\ [][NextEngage]_vars

NextSynonyms ==
    \/ IngestPostRow(SynonymRows, MaxRowPosts)
    \/ IngestInsightRow({"IG"}, AttrDates, FlatTotals, MaxReadings)
    \/ Pipeline

SpecSynonyms == Init /\ [][NextSynonyms]_vars

NextMetrics ==
    \/ IngestPostRow(MetricRows, MaxRowPosts)
    \/ IngestInsightRow({"IG"}, AttrDates, FlatTotals, MaxReadings)
    \/ Pipeline

SpecMetrics == Init /\ [][NextMetrics]_vars

NextInsights ==
    \/ IngestPostRow(SeriesRows, MaxSeriesPosts)
    \/ IngestInsightRow(Platforms, AttrDates, AttrTotals, MaxReadings)
    \/ Pipeline

SpecInsights == Init /\ [][NextInsights]_vars

NextPdf ==
    \/ IngestPostRow(LinkRows, MaxPosts)
    \/ IngestInsightRow({"IG"}, AttrDates, AttrTotals, MaxReadings)
    \/ IngestPdfTable(PdfTables, MaxPdfTables)
    \/ MergePdf
    \/ Pipeline

SpecPdf == Init /\ [][NextPdf]_vars

NextFiles ==
    \/ IngestPostRow(SeriesRows, MaxSeriesPosts)
    \/ IngestInsightRow({"IG"}, FileDates, AttrTotals, MaxReadings)
    \/ Pipeline

SpecFiles == Init /\ [][NextFiles]_vars

NextTs ==
    \/ IngestPostRow(TsRows, MaxPosts)
    \/ IngestInsightRow({"IG"}, AttrDates, AttrTotals, MaxReadings)
    \/ Pipeline

SpecTs == Init /\ [][NextTs]_vars

NextNames ==
    \/ OpenPostsFile(NameOpened)
    \/ IngestFileRow({Row("", 1, "", NumCell(10))}, MaxRowPosts)
    \/ IngestInsightRow({"IG"}, AttrDates, FlatTotals, MaxReadings)
    \/ Pipeline

SpecNames == Init /\ [][NextNames]_vars

NextFormat ==
    \/ IngestPostRow(FormatRows, MaxRowPosts)
    \/ IngestInsightRow({"IG"}, AttrDates, FlatTotals, MaxReadings)
    \/ Pipeline

SpecFormat == Init /\ [][NextFormat]_vars

NextInstant ==
    \/ IngestPostRow(InstantRows, MaxPosts)
    \/ IngestInsightRow({"IG"}, AttrDates, AttrTotals, MaxReadings)
    \/ Pipeline

SpecInstant == Init /\ [][NextInstant]_vars

NextShares ==
    \/ IngestPostRow(AttrRows, MaxPosts)
    \/ IngestInsightRow({"IG"}, AttrDates, ShareTotals, MaxReadings)
    \/ Pipeline

SpecShares == Init /\ [][NextShares]_vars

NextSeries ==
    \/ IngestPostRow(SeriesRows, MaxSeriesPosts)
    \/ IngestInsightRow({"IG"}, SeriesDates, SeriesTotals, MaxSeriesReadings)
    \/ Pipeline

SpecSeries == Init /\ [][NextSeries]_vars

-----------------------------------------------------------------------------
(* What the properties below are stated in: the follower series read off   *)
(* daily_followers by date order, and the deduplication key.               *)

Finished == pc \in {"attrib", "save", "done", "crash_alloc"}

Keys == KeySet(daily_followers)
Total(d) == DictValue(daily_followers, d)

\* d is an observed day that is not the first one.
HasDelta(d) == d \in Keys /\ \E k \in Keys : k < d

\* The observed day before d.
PrevKey(d) == CHOOSE k \in Keys : k < d /\ \A m \in Keys : m < d => m <= k

RawDelta(d) == Total(d) - Total(PrevKey(d))

Implausible(d) == RawDelta(d) < 0 /\ 10 * (-RawDelta(d)) > 9 * Total(PrevKey(d))

ClampedDelta(d) == IF Implausible(d) THEN 0 ELSE RawDelta(d)

PositiveDay(d) == HasDelta(d) /\ ClampedDelta(d) > 0

RECURSIVE SumFollows(_, _)
SumFollows(df, idx) ==
    IF idx = {} THEN 0
    ELSE LET i == CHOOSE j \in idx : TRUE
         IN  df[i].follows + SumFollows(df, idx \ {i})

PlatformDay(df, p, d) == {i \in 1..Len(df) : df[i].platform = p /\ df[i].date = d}

\* The records a first-encountered collapse on the non-empty post URL retains.
Retained(df) ==
    {i \in 1..Len(df) :
       df[i].url = "" \/ \A j \in 1..(i - 1) : df[j].url # df[i].url}

\* The record of the row last read, when that row was not skipped.
RowEmitted == row # <<>> /\ ParseOk(row[1].ts)
LastRecord == posts_data[Len(posts_data)]

\* A cell holds a value when it is a number; its count is the whole part.
Present(c) == c.k = "num"
Count(c) == IF Present(c) THEN Trunc10(c.v) ELSE 0

StoredMetricOk(m) == m = <<>> \/ m[1] >= 0

-----------------------------------------------------------------------------
(* C1: after attribution, for every (platform, date) with a positive       *)
(* clamped delta and positive total engagements of that platform's posts,  *)
(* the follows of these posts sum to the delta up to per-post rounding     *)
(* (half a follower per post), also when another platform posted that day. *)
C1_PlatformDaySum ==
    pc = "done" =>
      \A p \in Platforms, d \in AttrDates :
        LET idx == PlatformDay(posts_df, p, d)
        IN  (PositiveDay(d) /\ SumEngagements(posts_df, idx) > 0)
            => 2 * Abs(SumFollows(posts_df, idx) - ClampedDelta(d)) <= Cardinality(idx)

(* C2: on a day with positive delta and exactly two posts whose            *)
(* engagements sum to more than 0, the two allocations sum to within 1 of  *)
(* the delta; a delta of 100 gives 50 and 50 for equal engagements and     *)
(* 33/67 or 34/66 for engagements in ratio 1:2.                            *)
C2_TwoPostSplit ==
    pc = "done" =>
      \A d \in AttrDates : \A i, j \in GroupIdx(posts_df, d) :
        LET e1 == posts_df[i].engagements[1]
            e2 == posts_df[j].engagements[1]
            a1 == posts_df[i].follows
            a2 == posts_df[j].follows
        IN  (i # j /\ Cardinality(GroupIdx(posts_df, d)) = 2
             /\ PositiveDay(d) /\ e1 + e2 > 0)
            => /\ Abs(a1 + a2 - ClampedDelta(d)) <= 1
               /\ (ClampedDelta(d) = 100 /\ e1 = e2) => (a1 = 50 /\ a2 = 50)
               /\ (ClampedDelta(d) = 100 /\ e2 = 2 * e1)
                     => <<a1, a2>> \in {<<33, 67>>, <<34, 66>>}

C2_Witness ==
    /\ pc = "done"
    /\ Len(posts_df) = 2
    /\ posts_df[1].date = 2 /\ posts_df[2].date = 2
    /\ posts_df[1].engagements = <<1>> /\ posts_df[2].engagements = <<2>>
    /\ PositiveDay(2) /\ ClampedDelta(2) = 100
    /\ posts_df[1].follows = 33 /\ posts_df[2].follows = 67

(* C3: in the final table no two records share the same non-empty post   *)
(* URL.                                                                    *)
C3_UniqueUrls ==
    pc = "done" =>
      \A i, j \in 1..Len(posts_df) :
        (i # j /\ posts_df[i].url # "") => posts_df[i].url # posts_df[j].url

(* C4: attribution counts a post whose URL is duplicated once: on a       *)
(* positive day whose records all carry a URL, every post that has no      *)
(* duplicate gets the share computed over the first-encountered record of  *)
(* each URL, as if the duplicates were not in the sources.                 *)
C4_AttributionAfterDedup ==
    pc = "done" =>
      \A i \in 1..Len(posts_df) :
        LET d == posts_df[i].date
            day == GroupIdx(posts_df, d)
            total == SumEngagements(posts_df, Retained(posts_df) \cap day)
        IN  (/\ PositiveDay(d)
             /\ \A k \in day : posts_df[k].url # ""
             /\ \A k \in day : k # i => posts_df[k].url # posts_df[i].url
             /\ total > 0)
            => posts_df[i].follows
                 = RoundHalfEven(posts_df[i].engagements[1] * ClampedDelta(d), total)

(* C5: the difference computed for an observed day that is not the first   *)
(* is its total minus the total of the observed day before it, whatever    *)
(* the ingestion order and the gap; the first observed day gets no delta   *)
(* and every other observed day gets one.                                  *)
C5_DeltaIsDifference ==
    /\ pc = "delta_guard" =>
         /\ HasDelta(dates_sorted[di])
         /\ diff = <<RawDelta(dates_sorted[di])>>
    /\ Finished => DOMAIN daily_new_followers = {d \in Keys : HasDelta(d)}

C5_Witness ==
    /\ pc = "delta_guard"
    /\ DictKeys(daily_followers) = <<4, 1, 2>>
    /\ di = 3
    /\ dates_sorted[di] = 4
    /\ diff = <<Total(4) - Total(2)>>
    /\ diff # <<0>>

(* C6: the stored delta is 0 exactly when the difference is negative and   *)
(* its magnitude is more than 90% of the previous total; every other       *)
(* difference, a smaller drop included, is stored as it is.                *)
C6_ClampExactly ==
    Finished =>
      \A d \in Keys : HasDelta(d) =>
        /\ Implausible(d) => daily_new_followers[d] = 0
        /\ ~Implausible(d) => daily_new_followers[d] = RawDelta(d)

C6_Witness ==
    /\ pc = "done"
    /\ \E d \in Keys :
         /\ HasDelta(d)
         /\ Total(PrevKey(d)) = 1000 /\ Total(d) = 50
         /\ diff = <<0>>
         /\ daily_new_followers[d] = 0

(* C7: a post of a day whose clamped delta is zero or negative, or that    *)
(* has no delta (first observed day, no reading that day, fewer than two   *)
(* readings), has 0 follows after the run.                                 *)
C7_NoGainNoFollows ==
    pc = "done" =>
      \A i \in 1..Len(posts_df) :
        (~HasDelta(posts_df[i].date) \/ ClampedDelta(posts_df[i].date) <= 0)
          => posts_df[i].follows = 0

C7_Witness ==
    /\ pc = "done"
    /\ \E i, j \in 1..Len(posts_df) :
         /\ posts_df[i].date = 2 /\ posts_df[i].engagements[1] > 0
         /\ HasDelta(2) /\ ClampedDelta(2) < 0
         /\ posts_df[i].follows = 0
         /\ posts_df[j].date = 1 /\ posts_df[j].engagements[1] > 0
         /\ posts_df[j].follows = 0

(* C8: on a day with positive delta whose posts have total engagements 0,  *)
(* every post gets 0 follows, and the share is never computed with a zero  *)
(* total.                                                                  *)
C8_ZeroEngagementDay ==
    /\ pc # "crash_alloc"
    /\ pc = "done" =>
         \A i \in 1..Len(posts_df) :
           LET d == posts_df[i].date
           IN  (PositiveDay(d) /\ SumEngagements(posts_df, GroupIdx(posts_df, d)) = 0)
               => posts_df[i].follows = 0

C8_Witness ==
    /\ pc = "done"
    /\ PositiveDay(2)
    /\ Len(posts_df) = 2
    /\ posts_df[1].date = 2 /\ posts_df[2].date = 2
    /\ posts_df[1].engagements = <<0>> /\ posts_df[2].engagements = <<0>>
    /\ posts_df[1].follows = 0 /\ posts_df[2].follows = 0

(* C9: the follows of every record of the unified table are a              *)
(* non-negative integer.                                                   *)
C9_FollowsNonNegative ==
    pc = "done" => \A i \in 1..Len(posts_df) : posts_df[i].follows >= 0

(* C10: every stored impressions, reach, engagements and link-clicks value *)
(* of an emitted record is absent or a count >= 0.                         *)
C10_MetricsNonNegative ==
    \A i \in 1..Len(posts_data) :
      /\ StoredMetricOk(posts_data[i].impressions)
      /\ StoredMetricOk(posts_data[i].reach)
      /\ StoredMetricOk(posts_data[i].engagements)
      /\ StoredMetricOk(posts_data[i].clicks)

(* C11: the engagements of a record are the platform's sum of the counts  *)
(* of its row: FB = (reactions when a reactions value is present, else     *)
(* likes) + comments + shares; IG and Unknown = likes + comments + shares  *)
(* + saves; X = likes + comments + shares.  Stated for rows without the    *)
(* replies and retweets columns.                                           *)
PlatformSum(r) ==
    IF r.platform = "FB"
    THEN (IF Present(r.reactions) THEN Count(r.reactions) ELSE Count(r.likes))
         + Count(r.comments) + Count(r.shares)
    ELSE IF r.platform = "X"
    THEN Count(r.likes) + Count(r.comments) + Count(r.shares)
    ELSE Count(r.likes) + Count(r.comments) + Count(r.shares) + Count(r.saves)

C11_EngagementsByPlatform ==
    (RowEmitted /\ row[1].replies.k = "none" /\ row[1].retweets.k = "none")
        => LastRecord.engagements = <<PlatformSum(row[1])>>

(* C12: on an X row the comments term is the comments value when one is   *)
(* present and the replies value otherwise, the shares term is the shares  *)
(* value when one is present and the retweets value otherwise; an empty    *)
(* cell is not a present value.                                            *)
FirstPresent(a, b) == IF Present(a) THEN Count(a) ELSE Count(b)

C12_SynonymFallback ==
    (RowEmitted /\ row[1].platform = "X")
        => LastRecord.engagements =
              <<Count(row[1].likes)
                + FirstPresent(row[1].comments, row[1].replies)
                + FirstPresent(row[1].shares, row[1].retweets)>>

(* C13: a record with impressions above 0 carries the engagement rate     *)
(* engagements / impressions * 100 to the nearest hundredth, and a record  *)
(* carries a rate exactly when it carries impressions.                     *)
C13_RateIffImpressions ==
    \A i \in 1..Len(posts_data) :
        LET imp == posts_data[i].impressions
            rate == posts_data[i].rate
            e == posts_data[i].engagements[1]
        IN  /\ (imp # <<>> /\ imp[1] > 0)
                => /\ rate # <<>>
                   /\ 2 * Abs(rate[1] * imp[1] - e * 10000) <= imp[1]
            /\ (rate # <<>>) <=> (imp # <<>>)

(* C14: impressions, reach and link clicks are stored as absent when the  *)
(* coerced value of the row is 0, and as that value otherwise; engagements *)
(* is always stored as a number, 0 when the sum is 0.                      *)
StoredAs(n, m) == IF n = 0 THEN m = <<>> ELSE m = <<n>>

C14_ZeroStoredAbsent ==
    /\ \A i \in 1..Len(posts_data) :
          /\ posts_data[i].impressions # <<0>>
          /\ posts_data[i].reach # <<0>>
          /\ posts_data[i].clicks # <<0>>
          /\ Len(posts_data[i].engagements) = 1
    /\ RowEmitted
         => /\ StoredAs(to_int(row[1].impressions), LastRecord.impressions)
            /\ StoredAs(to_int(row[1].reach), LastRecord.reach)
            /\ StoredAs(to_int(PyOr(row[1].clicks, row[1].link_clicks)),
                        LastRecord.clicks)
            /\ LastRecord.engagements = <<engagements_val(row[1])>>

C14_Witness ==
    /\ RowEmitted
    /\ row[1].impressions = NumCell(0)
    /\ row[1].reach = NumCell(0)
    /\ row[1].clicks = NumCell(0)
    /\ row[1].link_clicks = NoneCell
    /\ row[1].likes = NoneCell
    /\ LastRecord.impressions = <<>>
    /\ LastRecord.reach = <<>>
    /\ LastRecord.clicks = <<>>
    /\ LastRecord.engagements = <<0>>

(* C15: follower totals are held per (platform, date): the total held for *)
(* a platform and date is the last reading of that platform for that date, *)
(* whatever another platform reads for the same date.                      *)
C15_TotalsPerPlatform ==
    \A k \in DOMAIN last_reading : Total(k[2]) = last_reading[k]

(* C16: the PDF merge keeps the number and order of the records, leaves   *)
(* every field other than impressions, reach and engagements as it was,    *)
(* and changes one of these three only where it was absent and the record  *)
(* has the URL of a PDF row.                                               *)
Merged == pc \in {"delta", "delta_loop", "delta_guard", "attrib"}

MergeKeeps(old, new) ==
    /\ [new EXCEPT !.impressions = <<>>, !.reach = <<>>, !.engagements = <<>>]
         = [old EXCEPT !.impressions = <<>>, !.reach = <<>>,
                       !.engagements = <<>>]
    /\ \A m \in {"impressions", "reach", "engagements"} :
          \/ new[m] = old[m]
          \/ /\ old[m] = <<>>
             /\ \E j \in 1..Len(pdf_posts_data) :
                   pdf_posts_data[j].post_url = old.url

C16_MergeKeepsRecords ==
    Merged => /\ Len(posts_df) = Len(posts_data)
              /\ \A i \in 1..Len(posts_df) :
                    MergeKeeps(posts_data[i], posts_df[i])

(* C17: the attribution step changes only the follows of the records:     *)
(* their number, order and every other field are as before.  It is the     *)
(* only step that sets follows, it runs once, and no record is ingested or *)
(* merged from then on.                                                    *)
SameButFollows(old, new) ==
    /\ Len(new) = Len(old)
    /\ \A i \in 1..Len(old) :
          [new[i] EXCEPT !.follows = 0] = [old[i] EXCEPT !.follows = 0]

NoFollows(df) == \A i \in 1..Len(df) : df[i].follows = 0

C17_AttributionOnlyFollows ==
    [][/\ pc = "attrib"
           => /\ NoFollows(posts_df)
              /\ SameButFollows(posts_df, posts_df')
              /\ pc' # "attrib"
       /\ pc \in {"attrib", "save", "done"}
           => /\ posts_data' = posts_data
              /\ pdf_posts_data' = pdf_posts_data
              /\ daily_followers' = daily_followers
       /\ pc \notin {"pdf", "attrib"} => posts_df' = posts_df
       /\ pc # "attrib" => NoFollows(posts_df') \/ posts_df' = posts_df]_vars

C17_Witness ==
    /\ pc = "save"
    /\ pdf_posts_data # <<>>
    /\ Len(posts_df) = 2
    /\ posts_df[1].follows > 0
    /\ posts_df[2].follows > 0

(* C18: whatever the source files hold, the run is not aborted: it never  *)
(* stops on an uncaught error before the unified table is written.         *)
Aborted == pc \in {"crash_sort", "crash_merge", "crash_alloc"}

C18_NoFileAborts == ~Aborted

(* C19: reading a row whose timestamp is missing, empty or in none of the *)
(* accepted formats adds no record and raises nothing, the loop going on   *)
(* with the next row; reading a row whose timestamp is in an accepted      *)
(* format adds exactly one record, with that date and hour.                *)
AcceptedFormat(ts) == ts.k \in {"mdy", "mdy_hms"}

C19_SkipUnparseable ==
    [][(pc = "walk" /\ <<row, posts_data>>' # <<row, posts_data>>)
          => /\ pc' = "walk"
             /\ row' # <<>>
             /\ IF AcceptedFormat(row'[1].ts)
                THEN /\ Len(posts_data') = Len(posts_data) + 1
                     /\ SubSeq(posts_data', 1, Len(posts_data)) = posts_data
                     /\ posts_data'[Len(posts_data')].date = row'[1].ts.date
                     /\ posts_data'[Len(posts_data')].hour = row'[1].ts.hour
                ELSE posts_data' = posts_data]_vars

C19_Witness ==
    /\ pc = "walk"
    /\ row # <<>>
    /\ row[1].ts.k = "nan"
    /\ Len(posts_data) = 1
    /\ posts_data[1].hour = 15

(* C20: a run that found no posts file, and so read no posts row, does    *)
(* not write the unified table: it ends with an error before that step.    *)
C20_NoPostsIsError == pc = "done" => row # <<>>

(* C21: the platform of a posts file is the one whose vocabulary word is  *)
(* a token of the file name; when no token decides, it is the platform of  *)
(* the domain of the file's first link, and Unknown when that fails too.   *)
(* A vocabulary word inside another word of the name decides nothing.      *)
IsSep(c) == c \in {"_", "-", ".", " "}

HasToken(s, k) ==
    \E i \in 1..(Len(s) - Len(k) + 1) :
        /\ SubSeq(s, i, i + Len(k) - 1) = k
        /\ i = 1 \/ IsSep(Char(s, i - 1))
        /\ i + Len(k) > Len(s) \/ IsSep(Char(s, i + Len(k)))

TokenPlatform(name) ==
    IF HasToken(name, "facebook") \/ HasToken(name, "fb") THEN "FB"
    ELSE IF HasToken(name, "instagram") \/ HasToken(name, "ig") THEN "IG"
    ELSE IF HasToken(name, "twitter") \/ HasToken(name, "x")
            \/ HasToken(name, "tw") THEN "X"
    ELSE "Unknown"

C21_PlatformPrecedence ==
    filename # ""
        => platform = IF TokenPlatform(lower(filename)) # "Unknown"
                      THEN TokenPlatform(lower(filename))
                      ELSE PlatformOfLink(df_posts[1].servicelink)

(* C22: the event of a posts file is the first table entry found in the   *)
(* folder path when the path holds a keyword, whatever the file name and   *)
(* the captions hold; otherwise the first entry found in the file name;    *)
(* otherwise the first entry found in the first caption that holds one;    *)
(* and "Unknown Event" only when none of the three holds a keyword.        *)
CaptionsWithKey(texts) ==
    {t \in 1..Len(texts) : KeysIn(lower(texts[t])) # {}}

FirstCaption(texts) ==
    texts[CHOOSE t \in CaptionsWithKey(texts) :
             \A u \in CaptionsWithKey(texts) : t <= u]

EventByPrecedence(path, name, texts) ==
    IF KeysIn(lower(path)) # {} THEN FirstName(KeysIn(lower(path)))
    ELSE IF KeysIn(lower(name)) # {} THEN FirstName(KeysIn(lower(name)))
    ELSE IF CaptionsWithKey(texts) # {}
    THEN FirstName(KeysIn(lower(FirstCaption(texts))))
    ELSE "Unknown Event"

C22_EventPrecedence ==
    filename # ""
        => event_name = EventByPrecedence(root, filename, df_posts[1].text)

(* C23: an IG row whose type tag contains "video" has the format Reel     *)
(* when its URL contains "/reel/" and Video when it contains "/tv/" and    *)
(* not "/reel/"; an IG row without a type tag has the format Reel when its *)
(* URL contains "/reel/" and Static otherwise.                             *)
HasTypeTag(r) == r.type.k = "str" /\ r.type.s # ""

C23_InstagramFormat ==
    (RowEmitted /\ row[1].platform = "IG")
        => /\ (HasTypeTag(row[1]) /\ Contains(lower(row[1].type.s), "video"))
               => /\ Contains(row[1].servicelink, "/reel/")
                      => LastRecord.format = "Reel"
                  /\ (Contains(row[1].servicelink, "/tv/")
                        /\ ~Contains(row[1].servicelink, "/reel/"))
                      => LastRecord.format = "Video"
           /\ ~HasTypeTag(row[1])
               => LastRecord.format =
                     IF Contains(row[1].servicelink, "/reel/")
                     THEN "Reel" ELSE "Static"

(* C24: a row that carries an instant as epoch seconds, as epoch          *)
(* milliseconds or as an ISO string produces a record, and the record has  *)
(* the date, hour and weekday of that instant, the same for the three      *)
(* forms.                                                                  *)
C24_InstantForms ==
    (row # <<>> /\ row[1].ts.k \in {"epoch_s", "epoch_ms", "iso"})
        => /\ posts_data # <<>>
           /\ LastRecord.date = row[1].ts.date
           /\ LastRecord.hour = row[1].ts.hour
           /\ LastRecord.weekday = row[1].ts.date % 7

(* C25: on a day with positive delta d and positive total engagements T,  *)
(* the allocation of a post with engagements e is an integer within 1/2 of *)
(* d * e / T, whatever the other posts of the day receive: the allocations *)
(* of the day are not adjusted to sum to d.                                *)
DayTotal(d) == SumEngagements(posts_df, GroupIdx(posts_df, d))

C25_NearestPerPost ==
    pc \in {"save", "done"} =>
      \A i \in 1..Len(posts_df) :
        LET d == posts_df[i].date
            e == posts_df[i].engagements[1]
        IN  (PositiveDay(d) /\ DayTotal(d) > 0)
            => 2 * Abs(posts_df[i].follows * DayTotal(d) - ClampedDelta(d) * e)
                  <= DayTotal(d)

C25_Witness ==
    /\ pc = "done"
    /\ Len(posts_df) = 2
    /\ posts_df[1].date = 2 /\ posts_df[2].date = 2
    /\ posts_df[1].engagements = <<1>> /\ posts_df[2].engagements = <<1>>
    /\ PositiveDay(2) /\ ClampedDelta(2) = 25
    /\ posts_df[1].follows = 12 /\ posts_df[2].follows = 12

NoNegativeEngagements(d) ==
    \A i \in GroupIdx(posts_df, d) : posts_df[i].engagements[1] >= 0

C27_AllocationMonotone ==
    pc \in {"save", "done"} =>
      \A d \in Keys :
        (PositiveDay(d) /\ NoNegativeEngagements(d) /\ DayTotal(d) > 0)
        => \A i, j \in GroupIdx(posts_df, d) :
             LET ei == posts_df[i].engagements[1]
                 ej == posts_df[j].engagements[1]
             IN  /\ ei >= ej => posts_df[i].follows >= posts_df[j].follows
                 /\ ei = ej => posts_df[i].follows = posts_df[j].follows
                 /\ ei = 0 => posts_df[i].follows = 0
                 /\ posts_df[i].follows <= ClampedDelta(d)

C27_Witness ==
    /\ pc = "done"
    /\ Len(posts_df) = 2
    /\ posts_df[1].date = 2 /\ posts_df[2].date = 2
    /\ posts_df[1].engagements = <<0>> /\ posts_df[2].engagements = <<2>>
    /\ PositiveDay(2) /\ ClampedDelta(2) = 850
    /\ posts_df[1].follows = 0 /\ posts_df[2].follows = 850

====
